---- MODULE Spec2Model ----
(***************************************************************************)
(* js_lib: fetch (an async HTTP GET returning the body text) and from_json *)
(* (a generic JSON decoder), both wrapping their collaborator's outcome in *)
(* the two-variant js_lib::Error (src/src/lib.rs).                         *)
(*                                                                         *)
(* The collaborators, reqwest and serde_json, are the environment: the     *)
(* transport completes a request or a body read with any outcome it can    *)
(* produce, and the decoder is serde_json's recursive descent for the      *)
(* target type Vec<String> of the crate's test and documentation, over a   *)
(* token alphabet.                                                         *)
(***************************************************************************)
EXTENDS Integers, Sequences, FiniteSets, TLC

\* ------------------------------------------------------------------ bounds
NumTasks == 2      \* concurrent fetch invocations
MaxLen == 5        \* longest from_json input, in tokens
NumCallers == 2    \* concurrent from_json callers

Tasks == 1..NumTasks
Callers == 1..NumCallers

\* ------------------------------------------------- Result<T> and Error
\* pub enum Error { Network(reqwest::Error), ParseJson(serde_json::Error) }
Network(inner) == [variant |-> "Network", inner |-> inner]
ParseJson(inner) == [variant |-> "ParseJson", inner |-> inner]

\* pub type Result<T> = std::result::Result<T, Error>
Ok(val) == [tag |-> "Ok", val |-> val]
Err(error) == [tag |-> "Err", err |-> error]
\* An invocation that has not returned has no Result yet.
Pending == [tag |-> "none"]

\* ------------------------------------------------------ the transport
\* The URLs a caller passes: one the transport can request and two it
\* rejects before any I/O (unsupported scheme, not a URL at all).
GoodUrl == "https://host/word"
BadUrls == {"ftp://host/word", "not a url"}
Urls == {GoodUrl} \cup BadUrls

\* reqwest::Error kinds of a failed request and of a failed body read.
RequestErrors == {"connect", "timeout"}
BodyErrors == {"body"}
Statuses == {200, 404}
Texts == {"", "word"}

NoResponse == [tag |-> "none", status |-> 0, hasBody |-> FALSE, err |-> "none"]
Response(status, hasBody) ==
    [tag |-> "Ok", status |-> status, hasBody |-> hasBody, err |-> "none"]
RequestFailed(e) == [tag |-> "Err", status |-> 0, hasBody |-> FALSE, err |-> e]

\* What reqwest::get(url).await can complete with: a builder error for a
\* URL it cannot request; otherwise a request error, or a response with any
\* status code (a status is never an error for get), with or without a body.
GetOutcomes(u) ==
    IF u \in BadUrls
    THEN {RequestFailed("builder")}
    ELSE {RequestFailed(e) : e \in RequestErrors}
         \cup {Response(s, b) : s \in Statuses, b \in BOOLEAN}

NoText == [tag |-> "none", data |-> "none", err |-> "none"]
TextRead(data) == [tag |-> "Ok", data |-> data, err |-> "none"]
TextFailed(e) == [tag |-> "Err", data |-> "none", err |-> e]

\* What response.text().await can complete with: the empty string for a
\* response without a body; otherwise the decoded body, or a body error.
TextOutcomes(response) ==
    IF ~response.hasBody
    THEN {TextRead("")}
    ELSE {TextRead(d) : d \in Texts \ {""}} \cup {TextFailed(e) : e \in BodyErrors}

\* ------------------------------------------------------------ the state
VARIABLES
    pc,        \* fetch: where each invocation stands
    url,       \* fetch: the url argument
    getOut,    \* fetch: what reqwest::get completed with
    textOut,   \* fetch: what response.text() completed with
    result,    \* fetch: the value the invocation returned
    gets,      \* transport: GET requests issued for the invocation
    reads,     \* transport: body reads started for the invocation
    yields     \* fetch: how many times the invocation returned

fetchVars == <<pc, url, getOut, textOut, result, gets, reads, yields>>

VARIABLES
    jpc,       \* from_json: where each caller stands
    jinput,    \* from_json: the json argument
    jdecoded,  \* from_json: what serde_json::from_str returned
    jresult    \* from_json: the value the call returned

jsonVars == <<jpc, jinput, jdecoded, jresult>>

FetchInit ==
    /\ pc = [t \in Tasks |-> "idle"]
    /\ url = [t \in Tasks |-> "none"]
    /\ getOut = [t \in Tasks |-> NoResponse]
    /\ textOut = [t \in Tasks |-> NoText]
    /\ result = [t \in Tasks |-> Pending]
    /\ gets = [t \in Tasks |-> 0]
    /\ reads = [t \in Tasks |-> 0]
    /\ yields = [t \in Tasks |-> 0]

\* ---------------------------------------------------------------- fetch
\* The arms of the two matches of fetch.
InnerOkArm(data) == Ok(data)

\* A body-read failure reported under the other variant.
InnerErrArmAsParseJson(error) == Err(ParseJson(error))
InnerErrArm(error) == Err(Network(error))

\* A request failure replaced by an error of the wrapper's own.
OuterErrArmNormalised(error) == Err(Network("request failed"))
OuterErrArm(error) == Err(Network(error))

\* fetch(url) is called and polled: reqwest::get(url) issues the request
\* and the invocation suspends on it.
Call(t, u) ==
    /\ pc[t] = "idle"
    /\ pc' = [pc EXCEPT ![t] = "awaitGet"]
    /\ url' = [url EXCEPT ![t] = u]
    /\ gets' = [gets EXCEPT ![t] = @ + 1]
    /\ UNCHANGED <<getOut, textOut, result, reads, yields, jsonVars>>

\* One connection state for all invocations: the outcome of a request is
\* delivered to every invocation that waits for one.
GetCompletesShared(t, out) ==
    /\ pc[t] = "awaitGet"
    /\ out \in GetOutcomes(url[t])
    /\ getOut' = [x \in Tasks |-> IF pc[x] = "awaitGet" THEN out ELSE getOut[x]]
    /\ pc' = [x \in Tasks |-> IF pc[x] = "awaitGet" THEN "gotGet" ELSE pc[x]]
    /\ UNCHANGED <<url, textOut, result, gets, reads, yields, jsonVars>>

\* The transport completes the request of invocation t.
GetCompletes(t, out) ==
    /\ pc[t] = "awaitGet"
    /\ out \in GetOutcomes(url[t])
    /\ getOut' = [getOut EXCEPT ![t] = out]
    /\ pc' = [pc EXCEPT ![t] = "gotGet"]
    /\ UNCHANGED <<url, textOut, result, gets, reads, yields, jsonVars>>

\* The outer match with a status check before the body read, as
\* Response::error_for_status would add.
ResumeGetChecksStatus(t) ==
    /\ pc[t] = "gotGet"
    /\ IF getOut[t].tag = "Ok" /\ getOut[t].status \in 200..299
       THEN /\ pc' = [pc EXCEPT ![t] = "awaitText"]
            /\ reads' = [reads EXCEPT ![t] = @ + 1]
            /\ UNCHANGED <<result, yields>>
       ELSE /\ result' = [result EXCEPT ![t] =
                           OuterErrArm(IF getOut[t].tag = "Ok" THEN "status"
                                       ELSE getOut[t].err)]
            /\ yields' = [yields EXCEPT ![t] = @ + 1]
            /\ pc' = [pc EXCEPT ![t] = "done"]
            /\ UNCHANGED reads
    /\ UNCHANGED <<url, getOut, textOut, gets, jsonVars>>

\* The outer match with a retry: a failed request is issued again.
ResumeGetRetries(t) ==
    /\ pc[t] = "gotGet"
    /\ IF getOut[t].tag = "Ok"
       THEN /\ pc' = [pc EXCEPT ![t] = "awaitText"]
            /\ reads' = [reads EXCEPT ![t] = @ + 1]
            /\ UNCHANGED gets
       ELSE /\ pc' = [pc EXCEPT ![t] = "awaitGet"]
            /\ gets' = [gets EXCEPT ![t] = @ + 1]
            /\ UNCHANGED reads
    /\ UNCHANGED <<url, getOut, textOut, result, yields, jsonVars>>

\* The invocation resumes with the outcome of the request: the outer match.
ResumeGet(t) ==
    /\ pc[t] = "gotGet"
    /\ IF getOut[t].tag = "Ok"
       THEN /\ pc' = [pc EXCEPT ![t] = "awaitText"]
            /\ reads' = [reads EXCEPT ![t] = @ + 1]
            /\ UNCHANGED <<result, yields>>
       ELSE /\ result' = [result EXCEPT ![t] = OuterErrArm(getOut[t].err)]
            /\ yields' = [yields EXCEPT ![t] = @ + 1]
            /\ pc' = [pc EXCEPT ![t] = "done"]
            /\ UNCHANGED reads
    /\ UNCHANGED <<url, getOut, textOut, gets, jsonVars>>

\* The transport completes the body read of invocation t.
TextCompletes(t, out) ==
    /\ pc[t] = "awaitText"
    /\ out \in TextOutcomes(getOut[t])
    /\ textOut' = [textOut EXCEPT ![t] = out]
    /\ pc' = [pc EXCEPT ![t] = "gotText"]
    /\ UNCHANGED <<url, getOut, result, gets, reads, yields, jsonVars>>

\* The inner match never reached: the wake-up of the body read is lost and
\* the invocation waits for it again.
ResumeTextLost(t) ==
    /\ pc[t] = "gotText"
    /\ pc' = [pc EXCEPT ![t] = "awaitText"]
    /\ UNCHANGED <<url, getOut, textOut, result, gets, reads, yields, jsonVars>>

\* The invocation resumes with the outcome of the body read: the inner match.
ResumeText(t) ==
    /\ pc[t] = "gotText"
    /\ result' = [result EXCEPT ![t] =
                    IF textOut[t].tag = "Ok"
                    THEN InnerOkArm(textOut[t].data)
                    ELSE InnerErrArm(textOut[t].err)]
    /\ yields' = [yields EXCEPT ![t] = @ + 1]
    /\ pc' = [pc EXCEPT ![t] = "done"]
    /\ UNCHANGED <<url, getOut, textOut, gets, reads, jsonVars>>

\* The caller discards the future of a suspended invocation.
Abandon(t) ==
    /\ pc[t] \in {"awaitGet", "gotGet", "awaitText", "gotText"}
    /\ pc' = [pc EXCEPT ![t] = "dropped"]
    /\ UNCHANGED <<url, getOut, textOut, result, gets, reads, yields, jsonVars>>

\* What the transport does for invocation t.
TransportGet(t) == \E out \in GetOutcomes(url[t]) : GetCompletes(t, out)
TransportText(t) == \E out \in TextOutcomes(getOut[t]) : TextCompletes(t, out)

FetchStep(t) ==
    \/ \E u \in Urls : Call(t, u)
    \/ TransportGet(t)
    \/ ResumeGet(t)
    \/ TransportText(t)
    \/ ResumeText(t)
    \/ Abandon(t)

\* ------------------------------------------------------------ the codec
\* A JSON text is a sequence of tokens: the brackets, the comma, two string
\* literals, a number, an empty object and a whitespace character.
StrTokens == {"\"1\"", "\"2\""}
Tokens == {"[", "]", ",", "0", "{}", " "} \cup StrTokens

\* The contents of a string literal.
StrValue(tok) == IF tok = "\"1\"" THEN "1" ELSE "2"

\* The texts of at most n tokens.
Inputs(n) == UNION {[1..k -> Tokens] : k \in 0..n}

\* What the decoder returns at each level: a value and the position after
\* it, or an error code and the position it was raised at.
DeOk(val, pos) == [ok |-> TRUE, val |-> val, pos |-> pos]
DeErr(code, pos) == [ok |-> FALSE, err |-> [code |-> code, at |-> pos]]

\* Deserializer::parse_whitespace: the position of the next token that is
\* not whitespace (Len(s) + 1 at the end of the input).
RECURSIVE ParseWhitespace(_, _)
ParseWhitespace(s, p) ==
    IF p <= Len(s) /\ s[p] = " " THEN ParseWhitespace(s, p + 1) ELSE p

\* Deserializer::peek_invalid_type: the error for a value of another kind
\* than the visitor takes, or for a token that starts no value.
PeekInvalidType(s, p) ==
    IF s[p] \in StrTokens THEN DeErr("invalid type: string", p)
    ELSE IF s[p] = "0" THEN DeErr("invalid type: integer", p)
    ELSE IF s[p] = "[" THEN DeErr("invalid type: sequence", p)
    ELSE IF s[p] = "{}" THEN DeErr("invalid type: map", p)
    ELSE DeErr("expected value", p)

\* String::deserialize: Deserializer::deserialize_str.
DeserializeString(s, p) ==
    LET q == ParseWhitespace(s, p)
    IN  IF q > Len(s) THEN DeErr("EOF while parsing a value", q)
        ELSE IF s[q] \in StrTokens THEN DeOk(StrValue(s[q]), q + 1)
        ELSE PeekInvalidType(s, q)

\* SeqAccess::next_element_seed: the next element, or some = FALSE at the
\* closing bracket (which it leaves in the input).
NextElement(s, p, first) ==
    LET q == ParseWhitespace(s, p)
        none == [ok |-> TRUE, some |-> FALSE, pos |-> q]
        some(e) == IF e.ok THEN [ok |-> TRUE, some |-> TRUE, val |-> e.val, pos |-> e.pos]
                   ELSE e
    IN  IF q > Len(s) THEN DeErr("EOF while parsing a list", q)
        ELSE IF s[q] = "]" THEN none
        ELSE IF s[q] = "," /\ ~first
        THEN LET r == ParseWhitespace(s, q + 1)
             IN  IF r > Len(s) THEN DeErr("EOF while parsing a value", r)
                 ELSE IF s[r] = "]" THEN DeErr("trailing comma", r)
                 ELSE some(DeserializeString(s, r))
        ELSE IF first THEN some(DeserializeString(s, q))
        ELSE DeErr("expected , or ]", q)

\* VecVisitor::visit_seq: pushes the elements in the order they are read.
RECURSIVE VisitSeq(_, _, _, _)
VisitSeq(s, p, first, values) ==
    LET e == NextElement(s, p, first)
    IN  IF ~e.ok THEN e
        ELSE IF ~e.some THEN DeOk(values, e.pos)
        ELSE VisitSeq(s, e.pos, FALSE, Append(values, e.val))

\* Deserializer::end_seq.
EndSeq(s, p) ==
    LET q == ParseWhitespace(s, p)
    IN  IF q > Len(s) THEN DeErr("EOF while parsing a list", q)
        ELSE IF s[q] = "]" THEN DeOk(<<>>, q + 1)
        ELSE IF s[q] = ","
        THEN LET r == ParseWhitespace(s, q + 1)
             IN  IF r <= Len(s) /\ s[r] = "]" THEN DeErr("trailing comma", r)
                 ELSE DeErr("trailing characters", r)
        ELSE DeErr("trailing characters", q)

\* Vec<String>::deserialize: Deserializer::deserialize_seq.
DeserializeSeq(s, p) ==
    LET q == ParseWhitespace(s, p)
    IN  IF q > Len(s) THEN DeErr("EOF while parsing a value", q)
        ELSE IF s[q] = "["
        THEN LET ret == VisitSeq(s, q + 1, TRUE, <<>>)
             IN  IF ~ret.ok THEN ret
                 ELSE LET end == EndSeq(s, ret.pos)
                      IN  IF ~end.ok THEN end ELSE DeOk(ret.val, end.pos)
        ELSE PeekInvalidType(s, q)

\* Deserializer::end: only whitespace may follow the value.
End(s, p) ==
    LET q == ParseWhitespace(s, p)
    IN  IF q <= Len(s) THEN DeErr("trailing characters", q) ELSE DeOk(<<>>, q)

\* serde_json::from_str::<Vec<String>>(json): the value, then the end of
\* the input.
from_str(json) ==
    LET value == DeserializeSeq(json, 1)
    IN  IF ~value.ok THEN [tag |-> "Err", err |-> value.err]
        ELSE LET end == End(json, value.pos)
             IN  IF ~end.ok THEN [tag |-> "Err", err |-> end.err]
                 ELSE [tag |-> "Ok", val |-> value.val]

\* ------------------------------------------------------------ from_json
\* The arms of the match of from_json.
\* A decoded value replaced by the default of the target type.
JsonOkArmDefault(data_struct) == Ok(<<>>)
JsonOkArm(data_struct) == Ok(data_struct)

\* A decoder failure reported under the other variant.
JsonErrArmAsNetwork(error) == Err(Network(error))
JsonErrArm(error) == Err(ParseJson(error))

\* from_json::<Vec<String>>(json), run without interruption.
from_json(json) ==
    LET decoded == from_str(json)
    IN  IF decoded.tag = "Ok" THEN JsonOkArm(decoded.val) ELSE JsonErrArm(decoded.err)

JsonInit ==
    /\ jpc = [c \in Callers |-> "idle"]
    /\ jinput = [c \in Callers |-> <<>>]
    /\ jdecoded = [c \in Callers |-> Pending]
    /\ jresult = [c \in Callers |-> Pending]

\* Caller c enters from_json(json).
JsonCall(c, json) ==
    /\ jpc[c] = "idle"
    /\ jinput' = [jinput EXCEPT ![c] = json]
    /\ jpc' = [jpc EXCEPT ![c] = "called"]
    /\ UNCHANGED <<jdecoded, jresult, fetchVars>>

\* The decoder's outcome kept in one place for all callers.
JsonDecodeShared(c) ==
    /\ jpc[c] = "called"
    /\ jdecoded' = [x \in Callers |-> from_str(jinput[c])]
    /\ jpc' = [jpc EXCEPT ![c] = "decoded"]
    /\ UNCHANGED <<jinput, jresult, fetchVars>>

\* serde_json::from_str runs on the caller's own input.
JsonDecode(c) ==
    /\ jpc[c] = "called"
    /\ jdecoded' = [jdecoded EXCEPT ![c] = from_str(jinput[c])]
    /\ jpc' = [jpc EXCEPT ![c] = "decoded"]
    /\ UNCHANGED <<jinput, jresult, fetchVars>>

\* The match on the decoder's outcome, and the return.
JsonReturn(c) ==
    /\ jpc[c] = "decoded"
    /\ jresult' = [jresult EXCEPT ![c] =
                     IF jdecoded[c].tag = "Ok"
                     THEN JsonOkArm(jdecoded[c].val)
                     ELSE JsonErrArm(jdecoded[c].err)]
    /\ jpc' = [jpc EXCEPT ![c] = "done"]
    /\ UNCHANGED <<jinput, jdecoded, fetchVars>>

\* The steps of caller c, its argument drawn from inputs.
JsonStep(c, inputs) ==
    \/ jpc[c] = "idle" /\ \E json \in inputs : JsonCall(c, json)
    \/ JsonDecode(c)
    \/ JsonReturn(c)

\* The arguments of the concurrent callers: texts the decoder accepts and
\* texts it rejects at each of its levels.
ConcInputs ==
    { <<>>,
      <<"[">>,
      <<"{}">>,
      <<"[", "]">>,
      <<"[", "\"1\"", "]">>,
      <<"[", "\"1\"", ",", "]">>,
      <<"[", "\"2\"", ",", "\"1\"", "]">> }

\* ------------------------------------------------------- specifications
vars == <<fetchVars, jsonVars>>

Init == FetchInit /\ JsonInit

\* Concurrent fetch invocations.
Next == \E t \in Tasks : FetchStep(t)
Spec == Init /\ [][Next]_vars

\* The same, where the transport completes what it was asked for and the
\* executor polls an invocation that was woken; a caller may still abandon.
Fairness ==
    \A t \in Tasks :
        /\ WF_vars(TransportGet(t))
        /\ WF_vars(ResumeGet(t))
        /\ WF_vars(TransportText(t))
        /\ WF_vars(ResumeText(t))
SpecLive == Init /\ [][Next]_vars /\ Fairness

\* One from_json call on any input of at most MaxLen tokens.
JsonNext == JsonStep(1, Inputs(MaxLen))
SpecJson == Init /\ [][JsonNext]_vars

\* Concurrent from_json callers, their steps interleaved.
JsonConcNext == \E c \in Callers : JsonStep(c, ConcInputs)
SpecJsonConc == Init /\ [][JsonConcNext]_vars

\* One fetch invocation and one from_json call, side by side.
BothNext == FetchStep(1) \/ JsonStep(1, ConcInputs)
SpecBoth == Init /\ [][BothNext]_vars

\* --------------------------------------------------------- JSON, as such
\* The vocabulary of the claims about from_json: what a JSON text is and
\* what it denotes, stated by the grammar and not by the decoder.
StripWs(s) == SelectSeq(s, LAMBDA tok : tok # " ")

\* The position after the JSON value that starts at p in a text without
\* whitespace, or 0 when none starts there.
RECURSIVE ValueEnd(_, _)
RECURSIVE ElementsEnd(_, _)
ValueEnd(s, p) ==
    IF p > Len(s) THEN 0
    ELSE IF s[p] \in StrTokens \cup {"0", "{}"} THEN p + 1
    ELSE IF s[p] = "["
    THEN IF p + 1 <= Len(s) /\ s[p + 1] = "]" THEN p + 2 ELSE ElementsEnd(s, p + 1)
    ELSE 0
ElementsEnd(s, p) ==
    LET e == ValueEnd(s, p)
    IN  IF e = 0 \/ e > Len(s) THEN 0
        ELSE IF s[e] = "]" THEN e + 1
        ELSE IF s[e] = "," THEN ElementsEnd(s, e + 1)
        ELSE 0

\* s is a complete, syntactically valid JSON text.
IsJsonText(s) == ValueEnd(StripWs(s), 1) = Len(StripWs(s)) + 1

\* The JSON text of a sequence of strings.
Quote(str) == IF str = "1" THEN "\"1\"" ELSE "\"2\""
RECURSIVE RenderElements(_)
RenderElements(v) ==
    IF v = <<>> THEN <<>>
    ELSE IF Len(v) = 1 THEN <<Quote(v[1])>>
    ELSE <<Quote(v[1]), ",">> \o RenderElements(Tail(v))
Render(v) == <<"[">> \o RenderElements(v) \o <<"]">>

\* The strings of a text, in the order they stand in it.
StringsOf(s) ==
    LET lits == SelectSeq(s, LAMBDA tok : tok \in StrTokens)
    IN  [i \in 1..Len(lits) |-> StrValue(lits[i])]

\* s is a JSON text whose structure matches Vec<String>: up to whitespace,
\* the text of the strings that stand in it.
MatchesTarget(s) == StripWs(s) = Render(StringsOf(s))

\* ---------------------------------------------------------------- claims
Returned(t) == pc[t] = "done"
JsonReturned(c) == jpc[c] = "done"

\* C1: whatever the status code of the response, an invocation whose
\* request completed without a transport error goes on to read the body,
\* and when the body read produced a text it returns Ok of exactly that text.
C1_StatusNeverAnError ==
    \A t \in Tasks :
        (Returned(t) /\ getOut[t].tag = "Ok") =>
            /\ textOut[t].tag # "none"
            /\ textOut[t].tag = "Ok" => result[t] = Ok(textOut[t].data)

C1_Witness ==
    \E t \in Tasks :
        /\ Returned(t)
        /\ getOut[t].tag = "Ok" /\ getOut[t].status = 404
        /\ textOut[t] = TextRead("word")
        /\ result[t] = Ok("word")

\* C2: every failing outcome of fetch is Err(Error::Network): a failed
\* request (a URL the transport cannot request included) and a failed body
\* read both return Err, and no Err of fetch is of another variant.
C2_FailuresAreNetwork ==
    \A t \in Tasks :
        Returned(t) =>
            /\ (getOut[t].tag = "Err" \/ textOut[t].tag = "Err") => result[t].tag = "Err"
            /\ url[t] \in BadUrls => result[t].tag = "Err"
            /\ result[t].tag \in {"Ok", "Err"}
            /\ result[t].tag = "Err" => result[t].err.variant = "Network"

C2_Witness ==
    \E t \in Tasks :
        /\ Returned(t)
        /\ getOut[t].tag = "Ok"
        /\ textOut[t].tag = "Err"
        /\ result[t].tag = "Err" /\ result[t].err.variant = "Network"

\* C3: fetch returns an Err when the response has no body.
C3_NoBodyIsAnError ==
    \A t \in Tasks :
        (Returned(t) /\ getOut[t].tag = "Ok" /\ ~getOut[t].hasBody) =>
            result[t].tag = "Err"

\* C4: for an input that is no complete JSON text, or a JSON text whose
\* structure does not match Vec<String>, from_json returns
\* Err(Error::ParseJson): never an Ok, never Error::Network.
C4_RejectsInvalidAndMismatched ==
    \A c \in Callers :
        (JsonReturned(c) /\ (~IsJsonText(jinput[c]) \/ ~MatchesTarget(jinput[c]))) =>
            /\ jresult[c].tag = "Err"
            /\ jresult[c].err.variant = "ParseJson"

C4_Witness ==
    \E c \in Callers :
        /\ JsonReturned(c)
        /\ IsJsonText(jinput[c]) /\ ~MatchesTarget(jinput[c])
        /\ Len(jinput[c]) = MaxLen
        /\ jresult[c].tag = "Err" /\ jresult[c].err.variant = "ParseJson"

\* C5: for a JSON text whose structure matches Vec<String>, from_json
\* returns Ok of exactly the strings of the text, in the order of the text.
C5_DecodesInOrder ==
    \A c \in Callers :
        (JsonReturned(c) /\ MatchesTarget(jinput[c])) =>
            jresult[c] = Ok(StringsOf(jinput[c]))

C5_Witness ==
    \E c \in Callers :
        /\ JsonReturned(c)
        /\ jinput[c] = Render(<<"2", "1">>)
        /\ jresult[c] = Ok(<<"2", "1">>)

\* C6: an invocation issues exactly one GET request, whatever fails later;
\* it starts at most one body read, and only after the request succeeded.
C6_OneRequest ==
    \A t \in Tasks :
        /\ gets[t] = (IF pc[t] = "idle" THEN 0 ELSE 1)
        /\ reads[t] <= 1
        /\ reads[t] = 1 => getOut[t].tag = "Ok"
        /\ (Returned(t) /\ getOut[t].tag = "Ok") => reads[t] = 1

C6_Witness ==
    \E t, u \in Tasks :
        /\ Returned(t) /\ getOut[t].tag = "Err" /\ gets[t] = 1 /\ reads[t] = 0
        /\ Returned(u) /\ textOut[u].tag = "Err" /\ gets[u] = 1 /\ reads[u] = 1

\* C7: a failure of the transport or of the decoder is returned as an Err
\* that carries the collaborator's own error value, under Network for fetch
\* and under ParseJson for from_json; no Ok stands in for a failure.
C7_ErrorsVerbatim ==
    /\ \A t \in Tasks :
        Returned(t) =>
            /\ getOut[t].tag = "Err" => result[t] = Err(Network(getOut[t].err))
            /\ textOut[t].tag = "Err" => result[t] = Err(Network(textOut[t].err))
    /\ \A c \in Callers :
        (JsonReturned(c) /\ from_str(jinput[c]).tag = "Err") =>
            jresult[c] = Err(ParseJson(from_str(jinput[c]).err))

C7_Witness ==
    /\ Returned(1) /\ getOut[1] = RequestFailed("timeout")
    /\ result[1] = Err(Network("timeout"))
    /\ JsonReturned(1) /\ jinput[1] = <<"[", "\"1\"", ",", "]">>
    /\ jresult[1] = Err(ParseJson([code |-> "trailing comma", at |-> 4]))

\* C8: under every interleaving of concurrent from_json calls, each call
\* returns what from_json returns for its own input when run alone.
C8_CallsDoNotInterfere ==
    \A c \in Callers : JsonReturned(c) => jresult[c] = from_json(jinput[c])

C8_Witness ==
    \E c, d \in Callers :
        /\ JsonReturned(c) /\ JsonReturned(d)
        /\ jinput[c] = <<"[", "\"2\"", ",", "\"1\"", "]">>
        /\ jresult[c] = Ok(<<"2", "1">>)
        /\ jresult[d].tag = "Err"

\* C9: concurrent fetch invocations are independent: a step of one leaves
\* everything of the others as it was, an invocation the transport has
\* answered can resume whatever the others do, and invocations with the same
\* url and the same transport responses return the same result.
OwnState(t) ==
    <<pc[t], url[t], getOut[t], textOut[t], result[t], gets[t], reads[t], yields[t]>>

C9_StepsAreLocal ==
    \A t \in Tasks :
        OwnState(t)' # OwnState(t) =>
            \A u \in Tasks \ {t} : OwnState(u)' = OwnState(u)

C9_NeverBlocked ==
    \A t \in Tasks :
        /\ pc[t] = "idle" => ENABLED Call(t, GoodUrl)
        /\ pc[t] = "awaitGet" => ENABLED TransportGet(t)
        /\ pc[t] = "gotGet" => ENABLED ResumeGet(t)
        /\ pc[t] = "awaitText" => ENABLED TransportText(t)
        /\ pc[t] = "gotText" => ENABLED ResumeText(t)

C9_OwnResponsesDecide ==
    \A t, u \in Tasks :
        ( /\ Returned(t) /\ Returned(u)
          /\ url[t] = url[u] /\ getOut[t] = getOut[u] /\ textOut[t] = textOut[u] )
        => result[t] = result[u]

C9_FetchesIndependent ==
    /\ [][C9_StepsAreLocal]_vars
    /\ [](C9_NeverBlocked /\ C9_OwnResponsesDecide)

C9_Witness ==
    \E t, u \in Tasks :
        /\ t # u
        /\ Returned(t) /\ result[t] = Ok("word")
        /\ pc[u] = "awaitText" /\ url[u] = url[t]

\* C10: an invocation that is not abandoned and whose transport steps
\* complete eventually returns; it returns once, Ok(body) or Err(Network).
Suspended == {"awaitGet", "gotGet", "awaitText", "gotText"}

C10_ReturnsOnce ==
    \A t \in Tasks :
        /\ yields[t] <= 1
        /\ Returned(t) <=> yields[t] = 1
        /\ Returned(t) =>
            \/ result[t].tag = "Ok"
            \/ result[t].tag = "Err" /\ result[t].err.variant = "Network"

C10_EventuallyReturns ==
    /\ \A t \in Tasks : (pc[t] \in Suspended) ~> (pc[t] \in {"done", "dropped"})
    /\ []C10_ReturnsOnce

C10_Witness ==
    \E t \in Tasks :
        /\ Returned(t) /\ yields[t] = 1
        /\ reads[t] = 1 /\ textOut[t].tag = "Ok"
====
